---- MODULE Spec2Model ----
(***************************************************************************)
(* Model of src/src/lib.rs: UnsafeShared<T> (an UnsafeCell wrapper handing *)
(* out unchecked references), UnsafeRef<'a, T> (a raw-pointer handle that  *)
(* prints its own address when dropped) and main, with T = NonCopyBool.    *)
(*                                                                         *)
(* A behaviour is either an execution of main (possibly followed by        *)
(* further executions of the same program, whose outputs are kept for      *)
(* comparison) or an arbitrary caller of the UnsafeShared / UnsafeRef API, *)
(* restricted only by what the borrow checker enforces.                    *)
(***************************************************************************)
EXTENDS Integers, Sequences, FiniteSets, Bags

(* ------------------------------ bounds -------------------------------- *)

\* number of stack slots a handle (an UnsafeRef temporary) can be placed in
NSlots == 2

\* lowest stack address a handle can be placed at
StackLow == 160

\* references (results of borrow, borrow_mut, deref, deref_mut) live at once
MaxViews == 2

\* lines an arbitrary caller lets the handles print
MaxOut == 1

\* executions of main that are compared with each other
MaxRuns == 2

(* ------------------------------ values -------------------------------- *)

\* struct NonCopyBool(bool): a tuple struct with one field
NonCopyBool(b) == [f0 |-> b]

\* the instantiation T = NonCopyBool
Values == {NonCopyBool(b) : b \in BOOLEAN}

\* the UnsafeShared cells of the program: main's flag
Cells == {"flag"}

\* the addresses an UnsafeRef value itself can live at (8 bytes: one pointer)
Addrs == {StackLow + 8 * k : k \in 0 .. NSlots - 1}

\* a reference is reached through the cell itself or through the handle at a
ViaCell == <<>>
ViaHandle(a) == <<a>>

\* the null pointer: what no handle and no reference points at
Null == "null"

\* a cell not constructed yet: its storage holds nothing a caller can reach
Unborn == [st |-> "unborn", val |-> NonCopyBool(FALSE)]
NoHandle == [ptr |-> Null]
NoRead == [ptr |-> Null, by |-> "none", val |-> NonCopyBool(FALSE)]
NoWrite == [val |-> NonCopyBool(FALSE), by |-> "none"]

VARIABLES
    cell,      \* cell[c]: [st, val]: the UnsafeCell<T> storage and whether it is live
    handles,   \* handles[a]: NoHandle, or [ptr]: the UnsafeRef living at a
    views,     \* the bag of live references [kind, ptr, via, valid]
    out,       \* stdout, a sequence of lines
    got,       \* NoRead, or [ptr, by, val]: the latest read through a view
    lastw,     \* lastw[c]: [val, by]: the latest value stored into c (history)
    touched,   \* touched[c]: borrow, borrow_mut or as_ref was called on c (history)
    ub,        \* undefined behaviour has been executed (history)
    pc,        \* position in main, or "caller" for an arbitrary caller
    prior      \* outputs of the earlier, completed executions of main

vars == <<cell, handles, views, out, got, lastw, touched, ub, pc, prior>>

(* ---------------------------- formatting ------------------------------ *)

HexDigit(d) ==
    <<"0", "1", "2", "3", "4", "5", "6", "7", "8", "9", "a", "b", "c", "d", "e", "f">>[d + 1]

RECURSIVE LowerHex(_)
\* {:x} of a non-negative integer, as a sequence of digit characters
LowerHex(n) ==
    IF n < 16 THEN <<HexDigit(n)>>
    ELSE Append(LowerHex(n \div 16), HexDigit(n % 16))

\* println!("{:p}", self): "0x" followed by the address in lower-case hex
FmtPointer(a) == <<"0x">> \o LowerHex(a)

\* #[derive(Debug)] on a tuple struct: Name(field)
FmtDebug(v) == <<"NonCopyBool", "(", IF v.f0 THEN "true" ELSE "false", ")">>

(* ----------------------------- references ----------------------------- *)

One(w) == SetToBag({w})

HasRoom == BagCardinality(views) < MaxViews

IsLive(c) == cell[c].st = "live"

\* how a reference was reached, as the histories record it
By(via) == IF via = ViaCell THEN "cell" ELSE "handle"

\* what an access to p does to another reference w: a write (or a new &mut)
\* ends the validity of every other reference to p, a read (or a new &) that
\* of the other &mut references.  Using a reference after that is undefined.
Ended(w, p, all) ==
    IF w.ptr = p /\ (all \/ w.kind = "mut") THEN [w EXCEPT !.valid = FALSE] ELSE w

RECURSIVE Copies(_, _)
\* the number of references of bag b among the kinds in S
Copies(b, S) ==
    IF S = {} THEN 0
    ELSE LET w == CHOOSE x \in S : TRUE IN b[w] + Copies(b, S \ {w})

\* bag b after an access to p through some reference not in b
Invalidate(b, p, all) ==
    LET img == {Ended(w, p, all) : w \in DOMAIN b}
    IN  [x \in img |-> Copies(b, {w \in DOMAIN b : Ended(w, p, all) = x})]

\* unsafe { &*p } / unsafe { &mut *p }: a new reference to the storage p
\* points at, reached through `via` (ViaHandle(a), or ViaCell)
Reborrow(kind, p, via) ==
    /\ HasRoom
    /\ views' = Invalidate(views, p, kind = "mut")
                    (+) One([kind |-> kind, ptr |-> p, via |-> via, valid |-> IsLive(p)])
    /\ ub' = (ub \/ ~IsLive(p))

(* --------------------------- UnsafeShared<T> -------------------------- *)

\* faulty variant of UnsafeShared_new: the cell is built from a default value
UnsafeShared_new_default(c, v) ==
    /\ cell[c] = Unborn
    /\ cell' = [cell EXCEPT ![c] = [st |-> "live", val |-> NonCopyBool(FALSE)]]
    /\ lastw' = [lastw EXCEPT ![c] = [val |-> v, by |-> "new"]]
    /\ UNCHANGED <<handles, views, out, got, touched, ub>>

\* UnsafeShared::new(value): takes ownership of value
UnsafeShared_new(c, v) ==
    /\ cell[c] = Unborn
    /\ cell' = [cell EXCEPT ![c] = [st |-> "live", val |-> v]]
    /\ lastw' = [lastw EXCEPT ![c] = [val |-> v, by |-> "new"]]
    /\ UNCHANGED <<handles, views, out, got, touched, ub>>

\* faulty variant of borrow_mut: a checked cell, refusing while a reference is live
borrow_mut_checked(c) ==
    /\ IsLive(c)
    /\ views = EmptyBag
    /\ Reborrow("mut", c, ViaCell)
    /\ touched' = [touched EXCEPT ![c] = TRUE]
    /\ UNCHANGED <<cell, handles, out, got, lastw>>

\* fn borrow_mut(&self) -> &mut T
borrow_mut(c) ==
    /\ IsLive(c)
    /\ Reborrow("mut", c, ViaCell)
    /\ touched' = [touched EXCEPT ![c] = TRUE]
    /\ UNCHANGED <<cell, handles, out, got, lastw>>

\* fn borrow(&self) -> &T
borrow(c) ==
    /\ IsLive(c)
    /\ Reborrow("shared", c, ViaCell)
    /\ touched' = [touched EXCEPT ![c] = TRUE]
    /\ UNCHANGED <<cell, handles, out, got, lastw>>

\* UnsafeRef::new(ptr): Self {ptr, marker: PhantomData}
UnsafeRef_new(ptr) == [ptr |-> ptr]

\* faulty variant of as_ref: the cell hands out one handle at a time
as_ref_exclusive(c, a) ==
    /\ IsLive(c)
    /\ \A b \in Addrs : handles[b] = NoHandle
    /\ handles' = [handles EXCEPT ![a] = UnsafeRef_new(c)]
    /\ touched' = [touched EXCEPT ![c] = TRUE]
    /\ UNCHANGED <<cell, views, out, got, lastw, ub>>

\* fn as_ref<'a>(&self) -> UnsafeRef<'a, T>; the handle is placed at address a
as_ref(c, a) ==
    /\ IsLive(c)
    /\ handles[a] = NoHandle
    /\ handles' = [handles EXCEPT ![a] = UnsafeRef_new(c)]
    /\ touched' = [touched EXCEPT ![c] = TRUE]
    /\ UNCHANGED <<cell, views, out, got, lastw, ub>>

\* the owner goes out of scope.  The borrow checker ties the results of borrow
\* and borrow_mut to the cell, but not a handle ('a is unconstrained) nor the
\* references obtained through a handle.
drop_cell(c) ==
    /\ IsLive(c)
    /\ \A w \in BagToSet(views) : w.ptr # c \/ w.via # ViaCell
    /\ cell' = [cell EXCEPT ![c].st = "dropped"]
    /\ views' = Invalidate(views, c, TRUE)
    /\ UNCHANGED <<handles, out, got, lastw, touched, ub>>

(* --------------------------- UnsafeRef<'a, T> ------------------------- *)

\* Deref::deref(&self) -> &T: unsafe { & *self.ptr }
deref(a) ==
    /\ handles[a] # NoHandle
    /\ Reborrow("shared", handles[a].ptr, ViaHandle(a))
    /\ UNCHANGED <<cell, handles, out, got, lastw, touched>>

\* DerefMut::deref_mut(&mut self) -> &mut T: unsafe { &mut *self.ptr }
deref_mut(a) ==
    /\ handles[a] # NoHandle
    /\ Reborrow("mut", handles[a].ptr, ViaHandle(a))
    /\ UNCHANGED <<cell, handles, out, got, lastw, touched>>

\* faulty variant of drop: no Drop impl, the handle goes silently
drop_silent(a) ==
    /\ handles[a] # NoHandle
    /\ \A w \in BagToSet(views) : w.via # ViaHandle(a)
    /\ handles' = [handles EXCEPT ![a] = NoHandle]
    /\ UNCHANGED <<cell, views, out, got, lastw, touched, ub>>

\* faulty variant of drop: the handle owns the value and destroys it with itself
drop_owning(a) ==
    /\ handles[a] # NoHandle
    /\ \A w \in BagToSet(views) : w.via # ViaHandle(a)
    /\ out' = Append(out, FmtPointer(a))
    /\ handles' = [handles EXCEPT ![a] = NoHandle]
    /\ cell' = [cell EXCEPT ![handles[a].ptr].st = "dropped"]
    /\ UNCHANGED <<views, got, lastw, touched, ub>>

\* Drop::drop(&mut self): println!("{:p}", self), then the handle is gone.
\* A reference obtained from the handle borrows it, so none is live here.
drop(a) ==
    /\ handles[a] # NoHandle
    /\ \A w \in BagToSet(views) : w.via # ViaHandle(a)
    /\ out' = Append(out, FmtPointer(a))
    /\ handles' = [handles EXCEPT ![a] = NoHandle]
    /\ UNCHANGED <<cell, views, got, lastw, touched, ub>>

(* ------------------------- uses of a reference ------------------------ *)

\* faulty variant of ReadThrough: a read yields the value read before, not the storage's
ReadCached(w) == {got.val}

\* faulty variant of ReadThrough: a read yields anything, valid reference or not
ReadAny(w) == Values

\* the values a read through reference w can yield: the storage's value, or
\* anything once the reference is no longer valid (undefined behaviour)
ReadThrough(w) == IF w.valid THEN {cell[w.ptr].val} ELSE Values

\* faulty variant of WriteThrough: the write goes to a copy, the storage keeps its value
WriteLost(w, v) == {cell[w.ptr].val}

\* the values a write of v through reference w can leave in the storage
WriteThrough(w, v) == IF w.valid THEN {v} ELSE Values

\* a read of *r, r one of the live references
read_ref(w) ==
    /\ BagIn(w, views)
    /\ \E v \in ReadThrough(w) : got' = [ptr |-> w.ptr, by |-> By(w.via), val |-> v]
    /\ views' = Invalidate(views (-) One(w), w.ptr, FALSE) (+) One(w)
    /\ ub' = (ub \/ ~w.valid)
    /\ UNCHANGED <<cell, handles, out, lastw, touched>>

\* *r = v, for a live mutable reference r; the old value is dropped in place
write_ref(w, v) ==
    /\ BagIn(w, views)
    /\ w.kind = "mut"
    /\ \E s \in WriteThrough(w, v) : cell' = [cell EXCEPT ![w.ptr].val = s]
    /\ lastw' = [lastw EXCEPT ![w.ptr] = [val |-> v, by |-> By(w.via)]]
    /\ views' = Invalidate(views (-) One(w), w.ptr, TRUE) (+) One(w)
    /\ ub' = (ub \/ ~w.valid)
    /\ UNCHANGED <<handles, out, got, touched>>

\* the reference goes out of use
end_ref(w) ==
    /\ BagIn(w, views)
    /\ views' = views (-) One(w)
    /\ UNCHANGED <<cell, handles, out, got, lastw, touched, ub>>

(* -------------------------------- main -------------------------------- *)

\* the state of a process before main runs
Fresh ==
    /\ cell = [c \in Cells |-> Unborn]
    /\ handles = [a \in Addrs |-> NoHandle]
    /\ views = EmptyBag
    /\ out = <<>>
    /\ got = NoRead
    /\ lastw = [c \in Cells |-> NoWrite]
    /\ touched = [c \in Cells |-> FALSE]
    /\ ub = FALSE

Goto(from, to) == pc = from /\ pc' = to /\ UNCHANGED prior

\* let flag = UnsafeShared::new(NonCopyBool(false));
main_new == Goto("start", "c1_as_ref") /\ UnsafeShared_new("flag", NonCopyBool(FALSE))

\* c1: flag.as_ref(), a temporary placed somewhere on the stack
c1_as_ref == Goto("c1_as_ref", "c1_deref_mut") /\ \E a \in Addrs : as_ref("flag", a)

\* c1: the place *flag.as_ref() of the assignment
c1_deref_mut == Goto("c1_deref_mut", "c1_assign") /\ \E a \in Addrs : deref_mut(a)

\* c1: ... = NonCopyBool(true)
c1_assign == Goto("c1_assign", "c1_end") /\ \E w \in BagToSet(views) : write_ref(w, NonCopyBool(TRUE))

c1_end == Goto("c1_end", "c1_drop") /\ \E w \in BagToSet(views) : end_ref(w)

\* faulty variant of c1_drop: the temporary of c1 outlives the closure
c1_forget ==
    /\ Goto("c1_drop", "c2_as_ref")
    /\ UNCHANGED <<cell, handles, views, out, got, lastw, touched, ub>>

\* c1: the temporary is dropped at the end of the closure's body
c1_drop == Goto("c1_drop", "c2_as_ref") /\ \E a \in Addrs : drop(a)

\* c2: flag.as_ref()
c2_as_ref == Goto("c2_as_ref", "c2_deref") /\ \E a \in Addrs : as_ref("flag", a)

\* c2: *flag.as_ref(), taken by reference by println!
c2_deref == Goto("c2_deref", "c2_read") /\ \E a \in Addrs : deref(a)

\* c2: Debug::fmt reads the value through the reference
c2_read == Goto("c2_read", "c2_print") /\ \E w \in BagToSet(views) : read_ref(w)

\* c2: println!("{:?}", ...) writes the line
c2_print ==
    /\ Goto("c2_print", "c2_end")
    /\ out' = Append(out, FmtDebug(got.val))
    /\ UNCHANGED <<cell, handles, views, got, lastw, touched, ub>>

c2_end == Goto("c2_end", "c2_drop") /\ \E w \in BagToSet(views) : end_ref(w)

\* faulty variant of c2_drop: the temporary of c2 is never dropped
c2_forget ==
    /\ Goto("c2_drop", "main_end")
    /\ UNCHANGED <<cell, handles, views, out, got, lastw, touched, ub>>

\* c2: the temporary is dropped at the end of the println! statement
c2_drop == Goto("c2_drop", "main_end") /\ \E a \in Addrs : drop(a)

\* flag goes out of scope at the end of main
main_end == Goto("main_end", "done") /\ drop_cell("flag")

\* the program is executed again: a new process, the earlier output kept
Rerun ==
    /\ pc = "done"
    /\ Len(prior) + 1 < MaxRuns
    /\ prior' = Append(prior, out)
    /\ pc' = "start"
    /\ cell' = [c \in Cells |-> Unborn]
    /\ handles' = [a \in Addrs |-> NoHandle]
    /\ views' = EmptyBag
    /\ out' = <<>>
    /\ got' = NoRead
    /\ lastw' = [c \in Cells |-> NoWrite]
    /\ touched' = [c \in Cells |-> FALSE]
    /\ ub' = FALSE

(* ------------------------- an arbitrary caller ------------------------ *)

\* Once undefined behaviour has been executed nothing constrains the program
\* any more: the model follows a caller up to that point and no further.
Caller == pc = "caller" /\ ~ub /\ UNCHANGED <<pc, prior>>

CallNew == Caller /\ \E c \in Cells, v \in Values : UnsafeShared_new(c, v)
CallBorrowMut == Caller /\ \E c \in Cells : borrow_mut(c)
CallBorrow == Caller /\ \E c \in Cells : borrow(c)
CallAsRef == Caller /\ \E c \in Cells, a \in Addrs : as_ref(c, a)
CallDeref == Caller /\ \E a \in Addrs : deref(a)
CallDerefMut == Caller /\ \E a \in Addrs : deref_mut(a)
CallRead == Caller /\ \E w \in BagToSet(views) : read_ref(w)
CallWrite == Caller /\ \E w \in BagToSet(views), v \in Values : write_ref(w, v)
CallEnd == Caller /\ \E w \in BagToSet(views) : end_ref(w)
CallDrop == Caller /\ Len(out) < MaxOut /\ \E a \in Addrs : drop(a)
CallDropCell == Caller /\ \E c \in Cells : drop_cell(c)

(* ---------------------------- specification --------------------------- *)

Init == Fresh /\ pc \in {"start", "caller"} /\ prior = <<>>

Next ==
    \/ main_new \/ c1_as_ref \/ c1_deref_mut \/ c1_assign \/ c1_end \/ c1_drop
    \/ c2_as_ref \/ c2_deref \/ c2_read \/ c2_print \/ c2_end \/ c2_drop
    \/ main_end \/ Rerun
    \/ CallNew \/ CallBorrowMut \/ CallBorrow \/ CallAsRef \/ CallDeref
    \/ CallDerefMut \/ CallRead \/ CallWrite \/ CallEnd \/ CallDrop \/ CallDropCell

Spec == Init /\ [][Next]_vars

(* ------------------------------- claims ------------------------------- *)

Live == {a \in Addrs : handles[a] # NoHandle}

Refs == BagToSet(views)

\* the lines a handle's drop can print
AddrLines == {FmtPointer(a) : a \in Addrs}

\* the positions of main from the call of c2 on
FromC2 == {"c2_as_ref", "c2_deref", "c2_read", "c2_print", "c2_end", "c2_drop", "main_end", "done"}

\* C1, for every value V: a read through a handle, after V was written through
\* a handle, yields V as long as no undefined behaviour was executed
C1_HandleReadsWritten ==
    \A w \in Refs :
        (read_ref(w) /\ w.via # ViaCell /\ lastw[w.ptr].by = "handle" /\ ~ub')
            => got'.val = lastw[w.ptr].val

\* C1, main: what c2 reads and prints is NonCopyBool(true)
C1_MainReadsTrue ==
    /\ pc \in {"c2_print", "c2_end", "c2_drop", "main_end", "done"}
           => got = [ptr |-> "flag", by |-> "handle", val |-> NonCopyBool(TRUE)]
    /\ pc \in {"c2_end", "c2_drop", "main_end", "done"}
           => out[2] = <<"NonCopyBool", "(", "true", ")">>

\* C1: a value written through a handle obtained with as_ref is the value a read
\* through a handle obtained afterwards returns, whatever the cell held before;
\* in main the value read and printed by c2 is true.
C1_WriteThenRead == [][C1_HandleReadsWritten]_vars /\ []C1_MainReadsTrue

C1_Witness ==
    /\ pc = "c2_print"
    /\ got.val = NonCopyBool(TRUE)
    /\ lastw["flag"] = [val |-> NonCopyBool(TRUE), by |-> "handle"]
    /\ Len(out) = 1

\* C2, the step: the drop of c1's handle appends that handle's address line and
\* only then is c2 called
C2_DropStep ==
    pc = "c1_drop" =>
        /\ Cardinality(Live) = 1
        /\ \E a \in Live : out' = <<FmtPointer(a)>>
        /\ pc' = "c2_as_ref"

\* C2: in main the address line of the drop of c1's write handle is in the
\* output strictly before anything c2 emits: c2 starts with exactly that line
\* printed, and the line stays the first one.
C2_AddressBeforeNext ==
    /\ [][C2_DropStep]_vars
    /\ [](pc \in FromC2 => Len(out) >= 1 /\ out[1] \in AddrLines)
    /\ [](pc \in {"c2_as_ref", "c2_deref", "c2_read", "c2_print"} => Len(out) = 1)

C2_Witness == pc = "c2_as_ref" /\ Len(out) = 1 /\ Live = {}

\* C3: in every state of main at most one handle is live, every live reference
\* is valid, and a mutable reference is the only reference to the value.
C3_MainAliasing ==
    pc # "caller" =>
        /\ Cardinality(Live) <= 1
        /\ ~ub
        /\ \A w \in Refs : w.valid
        /\ (\E w \in Refs : w.kind = "mut") => BagCardinality(views) = 1

C3_Witness ==
    /\ pc = "c1_assign"
    /\ Cardinality(Live) = 1
    /\ \E w \in Refs : w.kind = "mut" /\ w.via # ViaCell

\* C4: a cell on which borrow, borrow_mut and as_ref were never called holds the
\* value it was constructed with, up to and including its drop, and the program
\* has printed nothing and holds no handle and no reference.
C4_UnusedCellUnchanged ==
    \A c \in Cells :
        (cell[c] # Unborn /\ ~touched[c]) =>
            /\ lastw[c].by = "new"
            /\ cell[c].val = lastw[c].val
            /\ out = <<>>
            /\ Live = {}
            /\ views = EmptyBag
            /\ got = NoRead
            /\ ~ub

C4_Witness ==
    /\ cell["flag"] = [st |-> "dropped", val |-> NonCopyBool(TRUE)]
    /\ ~touched["flag"]

\* C5: whatever handles and references are live, borrow_mut, borrow and as_ref
\* on a live cell succeed, hand out a reference or handle to the value and
\* leave the cell as it is; nothing in the cell can reject the request.
C5_AcquisitionUnconditional ==
    \A c \in Cells :
        /\ (IsLive(c) /\ HasRoom) =>
            /\ ENABLED (borrow_mut(c) /\ cell' = cell /\ ub' = ub
                          /\ \E w \in BagToSet(views') :
                                w.kind = "mut" /\ w.ptr = c /\ w.via = ViaCell /\ w.valid)
            /\ ENABLED (borrow(c) /\ cell' = cell /\ ub' = ub
                          /\ \E w \in BagToSet(views') :
                                w.kind = "shared" /\ w.ptr = c /\ w.via = ViaCell /\ w.valid)
        /\ \A a \in Addrs :
            (IsLive(c) /\ handles[a] = NoHandle) =>
                ENABLED (as_ref(c, a) /\ cell' = cell /\ handles'[a].ptr = c)

C5_Witness ==
    /\ ~ub
    /\ Live # {}
    /\ \E w1, w2 \in Refs :
          /\ w1.kind = "mut" /\ w1.via = ViaCell /\ ~w1.valid
          /\ w2.kind = "mut" /\ w2.via = ViaCell /\ w2.valid
\* the output with every address line replaced by a placeholder
Shape(o) == [k \in 1 .. Len(o) |-> IF o[k] \in AddrLines THEN <<"0x", "_">> ELSE o[k]]

\* C6 as claimed: any two executions of main emit the same sequence of lines.
C6_SameOutput == pc = "done" => \A k \in 1 .. Len(prior) : prior[k] = out

\* C6, amended: any two executions of main emit the same number of lines, of the
\* same kinds in the same order, with the same value line; the text of an
\* address line is the address the handle was placed at, which is not fixed.
C6_SameShape == pc = "done" => \A k \in 1 .. Len(prior) : Shape(prior[k]) = Shape(out)

C6_Witness == pc = "done" /\ Len(prior) = 1 /\ prior[1] # out /\ prior[1][2] = out[2]

\* C7: without undefined behaviour a read through any reference, obtained from
\* borrow or from a handle's deref, yields the value stored last, whichever of
\* borrow_mut and a handle's deref_mut it was written through; a handle holds
\* the pointer to the cell's storage and nothing else.
C7_OneStorage ==
    /\ [][\A w \in Refs : (read_ref(w) /\ ~ub') => got'.val = lastw[w.ptr].val]_vars
    /\ [](~ub => \A c \in Cells : cell[c] # Unborn => cell[c].val = lastw[c].val)
    /\ [](\A a \in Live : DOMAIN handles[a] = {"ptr"} /\ handles[a].ptr \in Cells)

C7_Witness ==
    /\ ~ub
    /\ views = EmptyBag
    /\ got = [ptr |-> "flag", by |-> "cell", val |-> NonCopyBool(TRUE)]
    /\ lastw["flag"] = [val |-> NonCopyBool(TRUE), by |-> "handle"]

\* a handle that was written through has a live mutable reference while another
\* reference to the same value is live
Overlap(c) ==
    /\ lastw[c].by = "handle"
    /\ \E w \in Refs : w.kind = "mut" /\ w.ptr = c /\ w.via # ViaCell
    /\ BagCardinality(views) >= 2
    /\ \A w \in Refs : w.ptr = c

\* C8: nothing records live handles or references: while a handle with a live
\* mutable reference exists, as_ref hands out a second handle to the same cell,
\* and a reference through the second handle can be taken and used, so that
\* the written handle and another reference are live together.
C8_NoEnforcement ==
    \A a \in Live : \A b \in Addrs \ {a} :
        LET c == handles[a].ptr
            mutRef == [kind |-> "mut", ptr |-> c, via |-> ViaHandle(a), valid |-> TRUE]
        IN  (IsLive(c) /\ BagIn(mutRef, views)) =>
                /\ handles[b] = NoHandle => ENABLED (as_ref(c, b) /\ handles'[a] = handles[a])
                /\ (handles[b] # NoHandle /\ HasRoom) =>
                       ENABLED (deref(b) /\ BagCardinality(views') = BagCardinality(views) + 1)
                /\ BagCardinality(views) >= 2 =>
                       ENABLED (write_ref(mutRef, NonCopyBool(TRUE)) /\ Overlap(c)' /\ ~ub')

C8_Witness == ~ub /\ Cardinality(Live) = 2 /\ Overlap("flag")

\* C9: the complete output of main is three lines: an address line (c1's
\* handle), NonCopyBool(true), an address line (c2's handle); c2's handle is
\* live while the value is read and printed and is dropped after that, and no
\* handle is left at the end.
C9_MainOutput ==
    /\ pc \in {"c2_deref", "c2_read", "c2_print", "c2_end", "c2_drop"} => Cardinality(Live) = 1
    /\ pc = "c2_drop" => Len(out) = 2
    /\ pc \in {"main_end", "done"} =>
          /\ Live = {}
          /\ Len(out) = 3
          /\ out[1] \in AddrLines
          /\ out[2] = <<"NonCopyBool", "(", "true", ")">>
          /\ out[3] \in AddrLines

C9_Witness == pc = "done" /\ Len(out) = 3 /\ cell["flag"].st = "dropped"

\* a step within one execution (not the start of the next one)
SameRun == ~(pc = "done" /\ pc' = "start")

\* C10: creating a handle, reading through a reference, taking a reference and
\* dropping a handle leave the cell as it is; the value changes only by a write
\* through a live mutable reference (or the construction), and the cell is
\* destroyed only by its owner's drop, never by a handle's.
C10_Frame ==
    [][SameRun =>
        /\ (handles' # handles \/ got' # got \/ out' # out
                \/ BagCardinality(views') > BagCardinality(views)) => cell' = cell
        /\ \A c \in Cells :
            /\ (cell'[c].val # cell[c].val) =>
                  \/ cell[c] = Unborn
                  \/ \E w \in Refs : w.kind = "mut" /\ w.ptr = c /\ lastw'[c].by = By(w.via)
            /\ (cell'[c].st # cell[c].st /\ cell[c] # Unborn) =>
                  /\ cell'[c] = [st |-> "dropped", val |-> cell[c].val]
                  /\ handles' = handles /\ out' = out
      ]_vars

C10_Witness ==
    /\ pc = "caller"
    /\ Len(out) = 1
    /\ Live = {}
    /\ got.val = NonCopyBool(TRUE)
    /\ cell["flag"] = [st |-> "live", val |-> NonCopyBool(TRUE)]

====
